---- MODULE Spec2Model ----
(***************************************************************************)
(* Model of the retrieval core of rag-proj.                                *)
(*                                                                         *)
(* VectorStore (app/services/vector_store.py): four parallel in-memory     *)
(* sequences (_documents, _embeddings, _metadatas, _ids) and two files on  *)
(* disk per collection, <name>.npz (embeddings, documents, ids) and        *)
(* <name>_meta.json (metadatas).                                           *)
(*                                                                         *)
(* Conventions of the model:                                               *)
(*  - a vector is a tuple of integers; a NumPy 2-D array is a sequence of  *)
(*    rows; the Python value None of _embeddings is the empty sequence     *)
(*    (the code never stores a 0-row array);                               *)
(*  - a metadata dict is an ordered sequence of <<key, value>> pairs;      *)
(*  - an id is an integer: uuid4() draws the next value of a counter       *)
(*    (uuid4 never repeats), caller-supplied ids come from SuppliedIds;    *)
(*  - a cosine score is kept as an exact fraction of its signed square,    *)
(*    sgn(dot) * dot^2 / (|q|^2 * |v|^2), which orders scores exactly as   *)
(*    the cosine does; a zero denominator is the float NaN that NumPy      *)
(*    produces for 0/0.                                                    *)
(*                                                                         *)
(* TextProcessor (app/services/text_processor.py): the chunker. A text is  *)
(* a sequence of one-character strings; clean_text, str.split, str.find,   *)
(* str.strip and the slices are computed character by character.           *)
(*                                                                         *)
(* RAGEngine.ingest_documents (app/services/rag_engine.py): chunk, embed,  *)
(* add, persist, as one step over the store's state.                       *)
(*                                                                         *)
(* RAGEngine.retrieve, _build_context and query: one step each; an         *)
(* exception is a record of its class and its message, so that what the    *)
(* except clause of retrieve keeps of its cause can be read off.           *)
(*                                                                         *)
(* TextProcessor._recursive_split is also modelled call by call, as a      *)
(* stack of frames, to follow its descent through the separator list.      *)
(*                                                                         *)
(* The route handlers (app/api/v1/routes.py) over the registry             *)
(* _user_engines and a persist directory shared by the users: a handler    *)
(* is one step up to its first suspending await; a chat is two steps,      *)
(* before and after the call to the text generator.                        *)
(***************************************************************************)
EXTENDS Integers, Sequences, FiniteSets, TLC

\* ------------------------------------------------------------------ bounds
MaxBatch == 2
MaxAdded == 2
MaxFaults == 1
MaxTextLen == 5
MaxChunkSize == 2
MaxOverlap == 2
MaxDocs == 2

\* ------------------------------------------------------------ input domains
\* A chunk text with its embedding, as the embedding provider pairs them; "z"
\* embeds to the zero vector, "c" comes from a provider of another dimension.
Dims == {1, 2}
ChunksOfDim(d) ==
    IF d = 1
    THEN {[text |-> "c", vector |-> <<1>>]}
    ELSE {[text |-> "a", vector |-> <<1, 0>>],
          [text |-> "b", vector |-> <<0, 1>>],
          [text |-> "z", vector |-> <<0, 0>>]}
QueriesOfDim(d) ==
    IF d = 1 THEN {<<1>>} ELSE {<<1, 0>>, <<0, 0>>}
EmptyMeta == <<>>
Metas == {EmptyMeta, <<<<"source", "s1">>>>}
SuppliedIds == {101}

\* --------------------------------------------------------------- sequences
RECURSIVE Flatten(_)
Flatten(ss) ==
    IF ss = <<>> THEN <<>> ELSE Head(ss) \o Flatten(Tail(ss))

Reverse(s) ==
    [i \in 1..Len(s) |-> s[Len(s) + 1 - i]]

Prefix(s, k) ==
    [i \in 1..k |-> s[i]]

Range(s) ==
    {s[i] : i \in DOMAIN s}

\* ------------------------------------------------- json.dump / json.load
\* json.dump writes a list of dicts as a token stream; json.load parses the
\* stream back and raises on anything that is not a complete document.
JsonDumpDict(d) ==
    <<"{">> \o Flatten(d) \o <<"}">>

\* json_dump with an off-by-one: the last dict is never written.
json_dump_drops_last(ms) ==
    <<"[">> \o Flatten([i \in 1..(Len(ms) - 1) |-> JsonDumpDict(ms[i])]) \o <<"]">>

json_dump(ms) ==
    <<"[">> \o Flatten([i \in 1..Len(ms) |-> JsonDumpDict(ms[i])]) \o <<"]">>

JsonError == [ok |-> FALSE, value |-> <<>>]

RECURSIVE ParseList(_, _, _), ParseDict(_, _, _, _)
ParseList(t, i, acc) ==
    IF i > Len(t) THEN JsonError
    ELSE IF t[i] = "]" THEN
        (IF i = Len(t) THEN [ok |-> TRUE, value |-> acc] ELSE JsonError)
    ELSE IF t[i] = "{" THEN ParseDict(t, i + 1, <<>>, acc)
    ELSE JsonError

ParseDict(t, i, d, acc) ==
    IF i > Len(t) THEN JsonError
    ELSE IF t[i] = "}" THEN ParseList(t, i + 1, Append(acc, d))
    ELSE IF i + 1 > Len(t) THEN JsonError
    ELSE ParseDict(t, i + 2, Append(d, <<t[i], t[i + 1]>>), acc)

json_load(t) ==
    IF Len(t) = 0 \/ t[1] # "[" THEN JsonError ELSE ParseList(t, 2, <<>>)

\* ------------------------------------------------------- cosine similarity
RECURSIVE DotUpTo(_, _, _)
DotUpTo(a, b, k) ==
    IF k = 0 THEN 0 ELSE a[k] * b[k] + DotUpTo(a, b, k - 1)

Dot(a, b) ==
    DotUpTo(a, b, Len(a))

Sgn(x) ==
    IF x > 0 THEN 1 ELSE IF x < 0 THEN -1 ELSE 0

\* query_vec / norm(query_vec), row / norm(row), then the dot product: a zero
\* norm divides 0 by 0, which NumPy evaluates to NaN without raising.
Cosine(row, q) ==
    LET den == Dot(row, row) * Dot(q, q)
        dot == Dot(row, q)
    IN  [nan |-> den = 0, num |-> Sgn(dot) * dot * dot, den |-> den]

ScoreLess(x, y) ==
    ~x.nan /\ ~y.nan /\ x.num * y.den < y.num * x.den

ScoreEq(x, y) ==
    ~x.nan /\ ~y.nan /\ x.num * y.den = y.num * x.den

\* IEEE comparison x >= y: false as soon as one side is NaN.
ScoreGeq(x, y) ==
    ~x.nan /\ ~y.nan /\ x.num * y.den >= y.num * x.den

\* np.argsort order: ascending, NaN after every number.
SortsBefore(x, y) ==
    ~x.nan /\ (y.nan \/ ScoreLess(x, y))

Permutations1(n) ==
    {p \in [1..n -> 1..n] : \A i, j \in 1..n : i # j => p[i] # p[j]}

\* np.argsort(similarities) with the default kind ("quicksort", not stable):
\* every ascending arrangement is a possible outcome, equal scores in any order.
argsort(sims) ==
    {p \in Permutations1(Len(sims)) :
        \A i, j \in 1..Len(sims) : i < j => ~SortsBefore(sims[p[j]], sims[p[i]])}

\* [::-1][:top_k]
TopSlice(order, top_k) ==
    Prefix(Reverse(order), IF top_k < Len(order) THEN top_k ELSE Len(order))

\* ------------------------------------------------------------------- state
VARIABLES
    _documents,          \* list[str]
    _embeddings,         \* rows of the 2-D array, <<>> for None
    _metadatas,          \* list[dict]
    _ids,                \* list[str]
    storage_file,        \* <collection>.npz
    metadata_file,       \* <collection>_meta.json
    uuid_counter,        \* number of uuid4() values drawn so far
    call,                \* the last call: operation, exception, arguments
    before,              \* memory and disk as they were when that call began
    top_indices,         \* search's local top_indices (1-based positions)
    results,             \* the value the last call returned
    persist_interrupted, \* the files on disk were left by a persist that stopped midway
    faults,              \* number of I/O failures injected so far
    added,               \* number of records passed to add_documents so far
    chunk_size,          \* TextProcessor.chunk_size
    chunk_overlap,       \* TextProcessor.chunk_overlap
    init_args,           \* the arguments TextProcessor.__init__ was called with
    split,               \* split_text: its argument, and the list it returned
    processed,           \* process_documents: its argument, and what it yielded
    embed_calls,         \* the texts lists passed to embed_texts by the last engine call, an ingest
    ingest,              \* the last engine call when it was an ingest_documents: what it returned
    last_change,         \* how the last ingest with chunks, or the last clear, ended
    rsplit,              \* _recursive_split under way: its call stack
    retrieval,           \* the last engine call when it was a retrieve (or the retrieve of a query)
    query_call,          \* the last engine call when it was a query: generator calls, result
    context,             \* _build_context: its argument, the setting, its result
    _user_engines,       \* routes._user_engines, a dict: user id -> engine (its store's memory)
    files,               \* the persist directory: path of an existing file -> the file
    chats,               \* chat requests suspended in llm_service.generate
    request,             \* the last step a request handler took
    constructed          \* the user ids RAGEngine objects were built for, in order

storevars ==
    <<_documents, _embeddings, _metadatas, _ids, storage_file, metadata_file,
      uuid_counter, call, before, top_indices, results, persist_interrupted,
      faults, added>>

chunkervars ==
    <<chunk_size, chunk_overlap, init_args, split, processed, rsplit>>

enginevars ==
    <<embed_calls, ingest, last_change>>

queryvars ==
    <<retrieval, query_call, context>>

uservars ==
    <<_user_engines, files, chats, request, constructed>>

vars ==
    <<storevars, chunkervars, enginevars, queryvars, uservars>>

memvars ==
    <<_documents, _embeddings, _metadatas, _ids>>

diskvars ==
    <<storage_file, metadata_file>>

Mem ==
    [documents |-> _documents, embeddings |-> _embeddings,
     metadatas |-> _metadatas, ids |-> _ids]

Disk ==
    [storage |-> storage_file, meta |-> metadata_file]

EmptyMem ==
    [documents |-> <<>>, embeddings |-> <<>>, metadatas |-> <<>>, ids |-> <<>>]

AbsentStorage ==
    [exists |-> FALSE, readable |-> FALSE,
     embeddings |-> <<>>, documents |-> <<>>, ids |-> <<>>]

AbsentMeta ==
    [exists |-> FALSE, tokens |-> <<>>]

NoSnapshot ==
    [mem |-> EmptyMem, disk |-> [storage |-> AbsentStorage, meta |-> AbsentMeta]]

Snapshot ==
    [mem |-> Mem, disk |-> Disk]

\* after_persist: this call is a search and the call before it was a persist
\* that returned normally.
Call(op, err, top_k, query) ==
    [op |-> op, err |-> err, top_k |-> top_k, query |-> query,
     after_persist |-> op = "search" /\ call.op = "persist" /\ call.err = "none"]

\* ------------------------------------------------------------------- _load
\* What __init__ + _load leave in memory for the given pair of files.
_load(sf, mf) ==
    IF sf.exists /\ mf.exists
    THEN IF ~sf.readable
         THEN EmptyMem
         ELSE LET j == json_load(mf.tokens)
              IN  IF ~j.ok
                  THEN EmptyMem
                  ELSE [documents |-> sf.documents, embeddings |-> sf.embeddings,
                        metadatas |-> j.value, ids |-> sf.ids]
    ELSE EmptyMem

\* ---------------------------------------------------- TextProcessor.__init__
settings_chunk_size == 500
settings_chunk_overlap == 50

\* An optional argument: left out (None), or given with a value.
Omitted ==
    [given |-> FALSE, value |-> 0]

Given(v) ==
    [given |-> TRUE, value |-> v]

\* Python's `arg or default`: the default replaces None and every falsy value.
PythonOr(arg, default) ==
    IF arg.given /\ arg.value # 0 THEN arg.value ELSE default

TextProcessorInit(size_arg, overlap_arg) ==
    /\ init_args = [chunk_size |-> size_arg, chunk_overlap |-> overlap_arg]
    /\ chunk_size = PythonOr(size_arg, settings_chunk_size)
    /\ chunk_overlap = PythonOr(overlap_arg, settings_chunk_overlap)

\* No split_text, process_documents or ingest_documents call is under way.
NoSplit ==
    [text |-> <<>>, done |-> TRUE, chunks |-> <<>>]

NoProcessed ==
    [documents |-> <<>>, done |-> TRUE, chunks |-> <<>>]

NoIngest ==
    [documents |-> <<>>, err |-> "none", chunks |-> <<>>, trace |-> <<>>,
     ingested_count |-> 0, chunk_count |-> 0, retry |-> FALSE]

NoRecursiveSplit ==
    [text |-> <<>>, stack |-> <<>>, done |-> TRUE, result |-> <<>>, calls |-> 0]

\* An exception: its class and str(e). NoError: the call returned.
Raised(type, message) ==
    [type |-> type, message |-> message]

NoError ==
    Raised("none", <<>>)

NoRetrieval ==
    [called |-> FALSE, query |-> <<>>, top_k |-> 0, cause |-> NoError,
     err |-> NoError, results |-> <<>>, store_before |-> NoSnapshot]

NoQuery ==
    [called |-> FALSE, question |-> <<>>, err |-> NoError, generate_calls |-> <<>>,
     answer |-> <<>>, sources |-> <<>>, count_before |-> 0]

NoContext ==
    [documents |-> <<>>, max_context_length |-> 0, done |-> TRUE, context |-> <<>>]

\* ------------------------------------------------- users and their files
\* User.id as create_user draws it, a string; two ids one of which extends
\* the other by "_meta".
UserIds ==
    {<<"1">>, <<"1", "_", "m", "e", "t", "a">>}

\* RAGEngine() without a collection name: settings.collection_name for everyone.
collection_name_default(user_id) ==
    <<"d", "o", "c", "u", "m", "e", "n", "t", "s">>

\* f"documents_user_{user.id}"
collection_name(user_id) ==
    <<"d", "o", "c", "u", "m", "e", "n", "t", "s", "_", "u", "s", "e", "r", "_">>
        \o user_id

\* os.path.join(persist_directory, f"{collection_name}.npz"), without the
\* directory, which is the same for every store.
_get_storage_path(name) ==
    name \o <<".", "n", "p", "z">>

\* os.path.join(persist_directory, f"{collection_name}_meta.json")
_get_metadata_path(name) ==
    name \o <<"_", "m", "e", "t", "a", ".", "j", "s", "o", "n">>

\* A file of the persist directory: absent, written by np.savez, or written by
\* json.dump.
AbsentFile ==
    [kind |-> "absent", storage |-> AbsentStorage, tokens |-> <<>>]

\* The value of d[k] = v on a dict, and of del d[k].
MapSet(d, k, v) ==
    [x \in DOMAIN d \cup {k} |-> IF x = k THEN v ELSE d[x]]

MapDel(d, k) ==
    [x \in DOMAIN d \ {k} |-> d[x]]

\* The file at path p of the persist directory.
FileAt(p) ==
    IF p \in DOMAIN files THEN files[p] ELSE AbsentFile

NoRequest ==
    [user |-> <<>>, op |-> "none", err |-> "none", instance |-> 0,
     sources |-> <<>>, count |-> 0]

NoChat ==
    [pending |-> FALSE, user |-> <<>>, instance |-> 0, sources |-> <<>>]

\* The process has just started: no request served, no engine built, an empty
\* persist directory.
InitUsers ==
    /\ _user_engines = <<>>
    /\ files = <<>>
    /\ chats = <<>>
    /\ request = NoRequest
    /\ constructed = <<>>

\* No retrieve, query or _build_context call made yet.
InitQuery ==
    /\ retrieval = NoRetrieval
    /\ query_call = NoQuery
    /\ context = NoContext

\* No ingest_documents call made yet.
InitIngestCalls ==
    /\ embed_calls = <<>>
    /\ ingest = NoIngest
    /\ last_change = "none"

\* RAGEngine() with its default collaborators: TextProcessor() and no call yet.
InitEngine ==
    /\ TextProcessorInit(Omitted, Omitted)
    /\ split = NoSplit
    /\ processed = NoProcessed
    /\ rsplit = NoRecursiveSplit
    /\ InitIngestCalls
    /\ InitQuery
    /\ InitUsers

InitStore ==
    /\ _documents = <<>>
    /\ _embeddings = <<>>
    /\ _metadatas = <<>>
    /\ _ids = <<>>
    /\ storage_file = AbsentStorage
    /\ metadata_file = AbsentMeta
    /\ uuid_counter = 0
    /\ call = [op |-> "init", err |-> "none", top_k |-> 0, query |-> <<>>,
               after_persist |-> FALSE]
    /\ before = NoSnapshot
    /\ top_indices = <<>>
    /\ results = <<>>
    /\ persist_interrupted = FALSE
    /\ faults = 0
    /\ added = 0

Init ==
    InitStore /\ InitEngine

\* A fresh VectorStore on the same collection name and directory.
VectorStoreInit ==
    LET m == _load(storage_file, metadata_file)
    IN  /\ _documents' = m.documents
        /\ _embeddings' = m.embeddings
        /\ _metadatas' = m.metadatas
        /\ _ids' = m.ids
        /\ call' = Call("construct", "none", 0, <<>>)
        /\ before' = NoSnapshot
        /\ top_indices' = <<>>
        /\ results' = <<>>
        /\ UNCHANGED <<diskvars, uuid_counter, persist_interrupted, faults, added>>
        /\ embed_calls' = <<>>
        /\ ingest' = NoIngest
        /\ retrieval' = NoRetrieval
        /\ query_call' = NoQuery
        /\ UNCHANGED <<chunkervars, last_change, context, uservars>>

\* ----------------------------------------------------------- add_documents
OptionalArgs(n, S) ==
    {[given |-> FALSE, value |-> <<>>]}
        \cup {[given |-> TRUE, value |-> v] : v \in [1..n -> S]}

\* np.vstack raises ValueError when the new rows are not as wide as the stored ones.
DimensionMismatch(embeddings) ==
    /\ _embeddings # <<>>
    /\ embeddings # <<>>
    /\ Len(embeddings[1]) # Len(_embeddings[1])

\* list.extend that puts the new items in front of the stored ones.
extend_prepends(stored, new) ==
    new \o stored

\* list.extend, and np.vstack of the stored rows with the new rows.
extend(stored, new) ==
    stored \o new

AddDocuments(documents, embeddings, metadatas, ids) ==
    LET n == Len(documents)
        new_ids ==
            IF ids.given THEN ids.value ELSE [i \in 1..n |-> uuid_counter + i]
        new_metadatas ==
            IF metadatas.given THEN metadatas.value ELSE [i \in 1..n |-> EmptyMeta]
    IN  /\ top_indices' = <<>>
        /\ added' = added + n
        /\ UNCHANGED <<diskvars, persist_interrupted, faults>>
        /\ UNCHANGED <<chunkervars, enginevars, queryvars, uservars>>
        /\ before' = IF n > 0 /\ DimensionMismatch(embeddings)
                      THEN Snapshot ELSE NoSnapshot
        /\ IF n = 0
           THEN /\ call' = Call("add", "none", 0, <<>>)
                /\ results' = <<>>
                /\ UNCHANGED <<memvars, uuid_counter>>
           ELSE /\ uuid_counter' = IF ids.given THEN uuid_counter ELSE uuid_counter + n
                /\ IF DimensionMismatch(embeddings)
                   THEN /\ call' = Call("add", "ValueError", 0, <<>>)
                        /\ results' = <<>>
                        /\ UNCHANGED memvars
                   ELSE /\ _embeddings' = extend(_embeddings, embeddings)
                        /\ _documents' = extend(_documents, documents)
                        /\ _metadatas' = extend(_metadatas, new_metadatas)
                        /\ _ids' = extend(_ids, new_ids)
                        /\ call' = Call("add", "none", 0, <<>>)
                        /\ results' = new_ids

\* add_documents called with ids omitted or drawn from `supplied`.
add_documents_from(supplied) ==
    \E n \in 0..MaxBatch, d \in Dims :
        \E chunks \in [1..n -> ChunksOfDim(d)],
           metadatas \in OptionalArgs(n, Metas), ids \in OptionalArgs(n, supplied) :
            /\ added + n <= MaxAdded
            /\ AddDocuments([i \in 1..n |-> chunks[i].text],
                            [i \in 1..n |-> chunks[i].vector], metadatas, ids)

add_documents ==
    add_documents_from(SuppliedIds)

\* add_documents as RAGEngine.ingest_documents calls it: ids are never passed.
add_documents_new_ids ==
    add_documents_from({})

\* ------------------------------------------------------------------ persist
\* Where an I/O error (or the end of the process) stops persist():
\*   "path"       os.makedirs / opening the .npz for writing: nothing written
\*   "savez"      inside np.savez: the .npz is truncated, a zip without its directory
\*   "meta_open"  np.savez done, open(metadata_path, "w") fails: the old json stays
\*   "meta_dump"  inside json.dump: the json holds a proper prefix of its tokens
PersistFailPoints == {"none", "path", "savez", "meta_open", "meta_dump"}

\* The .npz np.savez writes for the in-memory state m.
StorageOf(m) ==
    [exists |-> TRUE, readable |-> TRUE,
     embeddings |-> m.embeddings, documents |-> m.documents, ids |-> m.ids]

TruncatedStorage ==
    [exists |-> TRUE, readable |-> FALSE,
     embeddings |-> <<>>, documents |-> <<>>, ids |-> <<>>]

\* json.dump stopped: the file holds nothing yet, or all but the closing token.
CutPoints(tokens) ==
    {0, Len(tokens) - 1}

\* What the try block of persist leaves on disk for the in-memory state m when
\* it stops at `fail` (json.dump after `cut` tokens).
PersistWrites(m, fail, cut) ==
    LET tokens == json_dump(m.metadatas)
    IN  [storage |->
             CASE fail = "path" -> storage_file
               [] fail = "savez" -> TruncatedStorage
               [] OTHER -> StorageOf(m),
         meta |->
             CASE fail \in {"path", "savez", "meta_open"} -> metadata_file
               [] fail = "meta_dump" ->
                      [exists |-> TRUE, tokens |-> Prefix(tokens, cut)]
               [] OTHER -> [exists |-> TRUE, tokens |-> tokens],
         interrupted |->
             CASE fail = "none" -> FALSE
               [] fail = "path" -> persist_interrupted
               [] OTHER -> TRUE]

\* An except branch that resets the store the way _load's does.
persist_except_resets(fail) ==
    IF fail = "none"
    THEN UNCHANGED memvars
    ELSE /\ _documents' = <<>>
         /\ _embeddings' = <<>>
         /\ _metadatas' = <<>>
         /\ _ids' = <<>>

\* What persist's try/except does to the in-memory state: nothing, the except
\* branch only raises VectorStoreError.
persist_except(fail) ==
    UNCHANGED memvars

Persist(fail, cut) ==
    /\ before' = Snapshot
    /\ top_indices' = <<>>
    /\ results' = <<>>
    /\ UNCHANGED <<uuid_counter, added>>
    /\ UNCHANGED <<chunkervars, enginevars, queryvars, uservars>>
    /\ persist_except(fail)
    /\ IF _documents = <<>>
       THEN /\ fail = "none"
            /\ cut = 0
            /\ call' = Call("persist", "none", 0, <<>>)
            /\ UNCHANGED <<diskvars, persist_interrupted, faults>>
       ELSE LET tokens == json_dump(_metadatas)
            IN  /\ cut \in CutPoints(tokens)
                /\ fail # "meta_dump" => cut = 0
                /\ fail # "none" => faults < MaxFaults
                /\ faults' = IF fail = "none" THEN faults ELSE faults + 1
                /\ call' = Call("persist",
                                IF fail = "none" THEN "none" ELSE "VectorStoreError",
                                0, <<>>)
                /\ storage_file' = PersistWrites(Mem, fail, cut).storage
                /\ metadata_file' = PersistWrites(Mem, fail, cut).meta
                /\ persist_interrupted' = PersistWrites(Mem, fail, cut).interrupted

persist ==
    \E fail \in PersistFailPoints, cut \in 0..Len(json_dump(_metadatas)) :
        Persist(fail, cut)

\* ------------------------------------------------------------------- search
similarities(query_embedding) ==
    [i \in 1..Len(_embeddings) |-> Cosine(_embeddings[i], query_embedding)]

Result(idx, sims) ==
    [id |-> _ids[idx], content |-> _documents[idx],
     metadata |-> _metadatas[idx], score |-> sims[idx]]

\* self._ids[idx], self._documents[idx], self._metadatas[idx] raise IndexError
\* for a position past the end of the list.
OutOfRange(idx) ==
    idx > Len(_ids) \/ idx > Len(_documents) \/ idx > Len(_metadatas)

\* search(query_embedding, top_k) on the store, recorded as the call `op`.
SearchStore(op, query_embedding, top_k, order) ==
    /\ before' = NoSnapshot
    /\ UNCHANGED <<memvars, diskvars, uuid_counter, persist_interrupted, added>>
    /\ IF _embeddings = <<>> \/ Len(_documents) = 0
       THEN /\ order = <<>>
            /\ call' = Call(op, "none", top_k, query_embedding)
            /\ top_indices' = <<>>
            /\ results' = <<>>
       ELSE LET sims == similarities(query_embedding)
                top == TopSlice(order, top_k)
            IN  /\ order \in argsort(sims)
                /\ top_indices' = top
                /\ IF \E k \in 1..Len(top) : OutOfRange(top[k])
                   THEN /\ call' = Call(op, "IndexError", top_k, query_embedding)
                        /\ results' = <<>>
                   ELSE /\ call' = Call(op, "none", top_k, query_embedding)
                        /\ results' = [k \in 1..Len(top) |-> Result(top[k], sims)]

Search(query_embedding, top_k, order) ==
    /\ SearchStore("search", query_embedding, top_k, order)
    /\ UNCHANGED faults
    /\ UNCHANGED <<chunkervars, enginevars, queryvars, uservars>>

search ==
    \E top_k \in 0..(MaxAdded + 1) :
        \E query_embedding \in
               QueriesOfDim(IF _embeddings = <<>> THEN 2 ELSE Len(_embeddings[1])),
           order \in {<<>>} \cup Permutations1(Len(_embeddings)) :
            Search(query_embedding, top_k, order)

\* -------------------------------------------------------- delete_collection
\* delete_collection that removes the .npz and forgets the metadata file.
delete_collection_keeps_meta ==
    /\ _documents' = <<>>
    /\ _embeddings' = <<>>
    /\ _metadatas' = <<>>
    /\ _ids' = <<>>
    /\ storage_file' = AbsentStorage
    /\ UNCHANGED <<metadata_file, persist_interrupted>>
    /\ call' = Call("delete", "none", 0, <<>>)
    /\ before' = Snapshot
    /\ top_indices' = <<>>
    /\ results' = <<>>
    /\ UNCHANGED <<uuid_counter, faults, added>>
    /\ UNCHANGED <<chunkervars, enginevars, queryvars, uservars>>

\* delete_collection that clears the lists and leaves the files in place.
DeleteCollection_memory_only ==
    /\ _documents' = <<>>
    /\ _embeddings' = <<>>
    /\ _metadatas' = <<>>
    /\ _ids' = <<>>
    /\ UNCHANGED <<diskvars, persist_interrupted>>
    /\ call' = Call("delete", "none", 0, <<>>)
    /\ before' = Snapshot
    /\ top_indices' = <<>>
    /\ results' = <<>>
    /\ UNCHANGED <<uuid_counter, faults, added>>

\* What delete_collection does to the store.
DeleteCollection ==
    /\ _documents' = <<>>
    /\ _embeddings' = <<>>
    /\ _metadatas' = <<>>
    /\ _ids' = <<>>
    /\ storage_file' = AbsentStorage
    /\ metadata_file' = AbsentMeta
    /\ persist_interrupted' = FALSE
    /\ call' = Call("delete", "none", 0, <<>>)
    /\ before' = Snapshot
    /\ top_indices' = <<>>
    /\ results' = <<>>
    /\ UNCHANGED <<uuid_counter, faults, added>>

\* delete_collection called on the store directly.
delete_collection ==
    /\ DeleteCollection
    /\ UNCHANGED <<chunkervars, enginevars, queryvars, uservars>>

\* ---------------------------------------------------------------- get_stats
document_count ==
    Len(_documents)

Next ==
    \/ VectorStoreInit
    \/ add_documents
    \/ persist
    \/ search
    \/ delete_collection

Spec ==
    Init /\ [][Next]_vars

\* The store as its owning engine drives it between searches: ids left to the
\* store, and no search (which changes neither memory nor disk).
NextStore ==
    \/ VectorStoreInit
    \/ add_documents_new_ids
    \/ persist
    \/ delete_collection

SpecStore ==
    Init /\ [][NextStore]_vars

\* persist on a disk that takes every write.
persist_completes ==
    Persist("none", 0)

settings_retrieval_top_k == 3

\* search as RAGEngine.retrieve calls it when no top_k is passed: top_k is
\* settings.retrieval_top_k.
search_default_top_k ==
    \E query_embedding \in
           QueriesOfDim(IF _embeddings = <<>> THEN 2 ELSE Len(_embeddings[1])),
       order \in {<<>>} \cup Permutations1(Len(_embeddings)) :
        Search(query_embedding, settings_retrieval_top_k, order)

\* One store object as its engine uses it, reads included: ids left to the
\* store, the default top_k, no I/O failure, no second construction.
NextSearch ==
    \/ add_documents_new_ids
    \/ persist_completes
    \/ search_default_top_k
    \/ delete_collection

SpecSearch ==
    Init /\ [][NextSearch]_vars

\* ============================================================ TextProcessor
\* A text is a sequence of characters (one-character strings).
Alphabet == {"a", "b", " ", "\n", "."}

Texts ==
    UNION {[1..n -> Alphabet] : n \in 0..MaxTextLen}

\* The characters \s matches and str.strip() removes.
IsSpace(c) ==
    c \in {" ", "\n", "\t", "\r"}

\* text[i:] for a 0-based i
SliceFrom(s, i) ==
    SubSeq(s, i + 1, Len(s))

RECURSIVE lstrip(_)
lstrip(s) ==
    IF s # <<>> /\ IsSpace(Head(s)) THEN lstrip(Tail(s)) ELSE s

RECURSIVE rstrip(_)
rstrip(s) ==
    IF s # <<>> /\ IsSpace(s[Len(s)]) THEN rstrip(SubSeq(s, 1, Len(s) - 1)) ELSE s

\* str.strip() that leaves the trailing whitespace in place.
strip_keeps_tail(s) ==
    lstrip(s)

strip(s) ==
    rstrip(lstrip(s))

\* re.sub(r"\s+", " ", text)
RECURSIVE sub_whitespace(_)
sub_whitespace(s) ==
    IF s = <<>> THEN <<>>
    ELSE IF IsSpace(Head(s)) THEN <<" ">> \o sub_whitespace(lstrip(s))
    ELSE <<Head(s)>> \o sub_whitespace(Tail(s))

RECURSIVE NewlineRun(_)
NewlineRun(s) ==
    IF s # <<>> /\ Head(s) = "\n" THEN 1 + NewlineRun(Tail(s)) ELSE 0

\* re.sub(r"\n{3,}", "\n\n", text)
RECURSIVE sub_newlines(_)
sub_newlines(s) ==
    IF s = <<>> THEN <<>>
    ELSE LET k == NewlineRun(s)
         IN  IF k >= 3 THEN <<"\n", "\n">> \o sub_newlines(SliceFrom(s, k))
             ELSE IF k > 0 THEN SubSeq(s, 1, k) \o sub_newlines(SliceFrom(s, k))
             ELSE <<Head(s)>> \o sub_newlines(Tail(s))

clean_text(text) ==
    strip(sub_newlines(sub_whitespace(text)))

\* str.startswith
startswith(s, p) ==
    Len(p) <= Len(s) /\ SubSeq(s, 1, Len(p)) = p

\* str.find: the 0-based place of the first occurrence, -1 when there is none.
RECURSIVE FindFrom(_, _, _)
FindFrom(s, p, i) ==
    IF i + Len(p) > Len(s) THEN -1
    ELSE IF SubSeq(s, i + 1, i + Len(p)) = p THEN i
    ELSE FindFrom(s, p, i + 1)

find(s, p) ==
    FindFrom(s, p, 0)

\* str.split(sep) for a non-empty separator
RECURSIVE str_split(_, _)
str_split(s, sep) ==
    LET i == find(s, sep)
    IN  IF i = -1 THEN <<s>>
        ELSE <<SubSeq(s, 1, i)>> \o str_split(SliceFrom(s, i + Len(sep)), sep)

separators ==
    <<<<"\n", "\n">>, <<"\n">>, <<".", " ">>, <<" ">>, <<>>>>

RECURSIVE _recursive_split(_, _)
_recursive_split(text, seps) ==
    IF seps = <<>> THEN <<text>>
    ELSE IF Head(seps) = <<>> THEN [i \in 1..Len(text) |-> <<text[i]>>]
    ELSE LET splits == str_split(text, Head(seps))
         IN  Flatten([k \in 1..Len(splits) |->
                 IF Len(splits[k]) <= chunk_size
                 THEN <<splits[k]>>
                 ELSE _recursive_split(splits[k], Tail(seps))])

\* The for loop of _merge_chunks and the append that follows it: the merged
\* chunks before any overlap is added.
RECURSIVE MergeLoop(_, _, _)
MergeLoop(chunks, current_chunk, merged) ==
    IF chunks = <<>>
    THEN IF current_chunk # <<>> THEN Append(merged, current_chunk) ELSE merged
    ELSE LET chunk == strip(Head(chunks))
         IN  IF chunk = <<>>
             THEN MergeLoop(Tail(chunks), current_chunk, merged)
             ELSE IF Len(current_chunk) + Len(chunk) + 1 <= chunk_size
             THEN MergeLoop(Tail(chunks),
                            strip(current_chunk \o <<" ">> \o chunk), merged)
             ELSE MergeLoop(Tail(chunks), chunk,
                            IF current_chunk # <<>>
                            THEN Append(merged, current_chunk) ELSE merged)

\* prev_chunk[-(k + 1):]: one character more than the overlap asks for.
LastChars_one_more(s, k) ==
    IF k + 1 >= Len(s) THEN s ELSE SubSeq(s, Len(s) - k, Len(s))

\* prev_chunk[-k:] for k > 0: the last k characters, the whole string if shorter.
LastChars(s, k) ==
    IF k >= Len(s) THEN s ELSE SubSeq(s, Len(s) - k + 1, Len(s))

\* The text _add_overlap takes from the previous chunk.
overlap_text(prev_chunk) ==
    LET tail == LastChars(prev_chunk, chunk_overlap)
        space_idx == find(tail, <<" ">>)
    IN  IF ~startswith(tail, <<" ">>) /\ space_idx # -1
        THEN SliceFrom(tail, space_idx + 1)
        ELSE tail

_add_overlap(chunks) ==
    [i \in 1..Len(chunks) |->
        IF i = 1 THEN chunks[1]
        ELSE strip(overlap_text(chunks[i - 1]) \o <<" ">> \o chunks[i])]

_merge_chunks(chunks) ==
    IF chunks = <<>> THEN <<>>
    ELSE LET merged == MergeLoop(chunks, <<>>, <<>>)
         IN  IF chunk_overlap > 0 /\ Len(merged) > 1
             THEN _add_overlap(merged)
             ELSE merged

SplitText(text) ==
    LET cleaned == clean_text(text)
    IN  IF Len(cleaned) <= chunk_size
        THEN IF cleaned # <<>> THEN <<cleaned>> ELSE <<>>
        ELSE _merge_chunks(_recursive_split(cleaned, separators))

\* The call split_text(split.text) returns.
split_text ==
    /\ ~split.done
    /\ split' = [split EXCEPT !.done = TRUE, !.chunks = SplitText(split.text)]
    /\ UNCHANGED <<chunk_size, chunk_overlap, init_args, processed, rsplit>>
    /\ UNCHANGED <<storevars, enginevars, queryvars, uservars>>

\* The values the constructor arguments are drawn from.
SizeArgs ==
    {Omitted} \cup {Given(v) : v \in 1..MaxChunkSize}

OverlapArgs ==
    {Omitted} \cup {Given(v) : v \in 0..MaxOverlap}

\* A TextProcessor just constructed, about to be handed one text.
InitSplit ==
    /\ InitStore
    /\ \E size_arg \in SizeArgs, overlap_arg \in OverlapArgs :
           TextProcessorInit(size_arg, overlap_arg)
    /\ \E text \in Texts : split = [text |-> text, done |-> FALSE, chunks |-> <<>>]
    /\ processed = NoProcessed
    /\ rsplit = NoRecursiveSplit
    /\ InitIngestCalls
    /\ InitQuery
    /\ InitUsers

NextSplit ==
    split_text

SpecSplit ==
    InitSplit /\ [][NextSplit]_vars

\* ------------------------------------------ _recursive_split, call by call
\* The same function as the operator _recursive_split, run as the interpreter
\* runs it: rsplit.stack is the call stack, one frame per call under way, the
\* innermost last. A frame is at "enter" (nothing executed yet), at "loop"
\* (inside `for split in splits`, frame.splits still to visit) or at "return"
\* (frame.chunks is the value it returns).
MaxRecursiveLen == 3

RecursiveTexts ==
    UNION {[1..n -> Alphabet] : n \in 0..MaxRecursiveLen}

Frame(text, seps) ==
    [text |-> text, separators |-> seps, pc |-> "enter",
     splits |-> <<>>, chunks |-> <<>>]

\* separators[1:] that drops nothing.
remaining_separators_all(seps) ==
    seps

\* remaining_separators = separators[1:]
remaining_separators(seps) ==
    Tail(seps)

Top ==
    rsplit.stack[Len(rsplit.stack)]

SetTop(frame) ==
    [rsplit EXCEPT !.stack[Len(rsplit.stack)] = frame]

RecursiveFrame ==
    UNCHANGED <<chunk_size, chunk_overlap, init_args, split, processed>>
        /\ UNCHANGED <<storevars, enginevars, queryvars, uservars>>

\* Lines 77-86: the two early returns, or text.split(separator).
rs_enter ==
    /\ rsplit.stack # <<>>
    /\ Top.pc = "enter"
    /\ rsplit' =
           IF Top.separators = <<>>
           THEN SetTop([Top EXCEPT !.pc = "return", !.chunks = <<Top.text>>])
           ELSE IF Head(Top.separators) = <<>>
           THEN SetTop([Top EXCEPT
                    !.pc = "return",
                    !.chunks = [i \in 1..Len(Top.text) |-> <<Top.text[i]>>]])
           ELSE SetTop([Top EXCEPT
                    !.pc = "loop",
                    !.splits = str_split(Top.text, Head(Top.separators))])
    /\ RecursiveFrame

\* Lines 89-91: a split that fits is appended.
rs_append ==
    /\ rsplit.stack # <<>>
    /\ Top.pc = "loop"
    /\ Top.splits # <<>>
    /\ Len(Head(Top.splits)) <= chunk_size
    /\ rsplit' = SetTop([Top EXCEPT !.splits = Tail(@),
                                    !.chunks = Append(@, Head(Top.splits))])
    /\ RecursiveFrame

\* Lines 92-95: a split that does not fit is passed to a new call.
rs_call ==
    /\ rsplit.stack # <<>>
    /\ Top.pc = "loop"
    /\ Top.splits # <<>>
    /\ Len(Head(Top.splits)) > chunk_size
    /\ rsplit' = [rsplit EXCEPT
           !.stack = Append(@, Frame(Head(Top.splits),
                                     remaining_separators(Top.separators))),
           !.calls = @ + 1]
    /\ RecursiveFrame

\* A call returns: its chunks extend the caller's (line 93), or, for the
\* outermost call, are the result.
rs_return ==
    /\ rsplit.stack # <<>>
    /\ \/ Top.pc = "return"
       \/ Top.pc = "loop" /\ Top.splits = <<>>
    /\ rsplit' =
           IF Len(rsplit.stack) = 1
           THEN [rsplit EXCEPT !.stack = <<>>, !.done = TRUE, !.result = Top.chunks]
           ELSE LET caller == rsplit.stack[Len(rsplit.stack) - 1]
                IN  [rsplit EXCEPT !.stack =
                        Append(SubSeq(rsplit.stack, 1, Len(rsplit.stack) - 2),
                               [caller EXCEPT !.splits = Tail(@),
                                              !.chunks = @ \o Top.chunks])]
    /\ RecursiveFrame

\* _recursive_split(text, self.separators) has just been called on a
\* TextProcessor built with an explicit chunk_size.
InitRecursive ==
    /\ InitStore
    /\ \E size \in 1..MaxChunkSize : TextProcessorInit(Given(size), Omitted)
    /\ split = NoSplit
    /\ processed = NoProcessed
    /\ \E text \in RecursiveTexts :
           rsplit = [text |-> text, stack |-> <<Frame(text, separators)>>,
                     done |-> FALSE, result |-> <<>>, calls |-> 1]
    /\ InitIngestCalls
    /\ InitQuery
    /\ InitUsers

NextRecursive ==
    \/ rs_enter
    \/ rs_append
    \/ rs_call
    \/ rs_return

\* The interpreter keeps executing a call that is under way.
SpecRecursive ==
    InitRecursive /\ [][NextRecursive]_vars /\ WF_vars(NextRecursive)

\* -------------------------------------------------------- process_documents
\* A document is a dict with "content" and "metadata"; its metadata may use any
\* key, "doc_index" included.
DocContents ==
    {<<>>, <<" ">>, <<"a">>, <<"a", " ", "b">>, <<"b", "\n", "a", "b">>}

DocMetas ==
    {EmptyMeta, <<<<"source", "s1">>>>, <<<<"doc_index", 9>>>>}

Docs ==
    {[content |-> c, metadata |-> m] : c \in DocContents, m \in DocMetas}

DocLists ==
    UNION {[1..n -> Docs] : n \in 0..MaxDocs}

HasKey(d, key) ==
    \E i \in 1..Len(d) : d[i][1] = key

\* d[key] = value on a dict: an existing key keeps its place and takes the new
\* value, a new key goes to the end.
dict_set(d, key, value) ==
    IF HasKey(d, key)
    THEN [i \in 1..Len(d) |-> IF d[i][1] = key THEN <<key, value>> ELSE d[i]]
    ELSE Append(d, <<key, value>>)

\* The chunk's metadata built from nothing but the three positions.
chunk_metadata_drops_doc(metadata, doc_idx, chunk_idx, total) ==
    <<<<"doc_index", doc_idx>>, <<"chunk_index", chunk_idx>>,
      <<"total_chunks", total>>>>

\* {**metadata, "doc_index": ..., "chunk_index": ..., "total_chunks": ...}
chunk_metadata(metadata, doc_idx, chunk_idx, total) ==
    dict_set(dict_set(dict_set(metadata, "doc_index", doc_idx),
                      "chunk_index", chunk_idx),
             "total_chunks", total)

\* Everything the generator yields, in the order it yields it.
ProcessDocuments(documents) ==
    Flatten([d \in 1..Len(documents) |->
        LET chunks == SplitText(documents[d].content)
        IN  [c \in 1..Len(chunks) |->
                [content |-> chunks[c],
                 metadata |-> chunk_metadata(documents[d].metadata,
                                             d - 1, c - 1, Len(chunks))]]])

\* The generator process_documents(processed.documents) is run to its end.
process_documents ==
    /\ ~processed.done
    /\ processed' = [processed EXCEPT !.done = TRUE,
                                      !.chunks = ProcessDocuments(processed.documents)]
    /\ UNCHANGED <<chunk_size, chunk_overlap, init_args, split, rsplit>>
    /\ UNCHANGED <<storevars, enginevars, queryvars, uservars>>

\* A TextProcessor just constructed, about to be handed one list of documents.
InitProcess ==
    /\ InitStore
    /\ \E size_arg \in SizeArgs, overlap_arg \in OverlapArgs :
           TextProcessorInit(size_arg, overlap_arg)
    /\ split = NoSplit
    /\ \E documents \in DocLists :
           processed = [documents |-> documents, done |-> FALSE, chunks |-> <<>>]
    /\ rsplit = NoRecursiveSplit
    /\ InitIngestCalls
    /\ InitQuery
    /\ InitUsers

NextProcess ==
    process_documents

SpecProcess ==
    InitProcess /\ [][NextProcess]_vars

\* ================================================================ RAGEngine
\* The documents handed to ingest_documents: an empty one, a blank one, a
\* two-word one (one chunk at the default chunk_size, two at chunk_size 1).
EngineContents ==
    {<<>>, <<" ">>, <<"b", " ", "a">>}

EngineDocs ==
    {[content |-> c, metadata |-> <<<<"source", "s1">>>>] : c \in EngineContents}

EngineDocLists ==
    UNION {[1..n -> EngineDocs] : n \in 0..MaxDocs}

\* The document lists handed to an engine that is followed over several
\* calls: no document, a blank one (no chunk), one document, two documents.
EngineBatches ==
    LET blank == [content |-> <<" ">>, metadata |-> <<<<"source", "s1">>>>]
        doc == [content |-> <<"b", " ", "a">>, metadata |-> <<<<"source", "s1">>>>]
    IN  {<<>>, <<blank>>, <<doc>>, <<doc, doc>>}

\* SentenceTransformer.encode(texts, normalize_embeddings=True): one unit
\* vector per text, a function of the text alone (here, of its last character).
encode(texts) ==
    [i \in 1..Len(texts) |->
        IF texts[i] # <<>> /\ texts[i][Len(texts[i])] = "a"
        THEN <<1, 0>> ELSE <<0, 1>>]

\* `if not chunks` that never takes the early return.
not_chunks_never(chunks) ==
    FALSE

\* `if not chunks`
not_chunks(chunks) ==
    chunks = <<>>

\* The chunk contents collected from the last chunk to the first.
texts_of_reversed(chunks) ==
    [i \in 1..Len(chunks) |-> chunks[Len(chunks) + 1 - i].content]

\* texts = [chunk["content"] for chunk in chunks]
texts_of(chunks) ==
    [i \in 1..Len(chunks) |-> chunks[i].content]

\* metadatas = [chunk["metadata"] for chunk in chunks]
metadatas_of(chunks) ==
    [i \in 1..Len(chunks) |-> chunks[i].metadata]

\* An ingest_documents in which only np.vstack can raise before the lists are
\* extended.
raises_before_add_vstack_only(embed_raises, mismatch) ==
    mismatch

\* The calls of ingest_documents that can raise before add_documents has
\* extended the lists: embed_texts (line 87), and np.vstack inside
\* add_documents.
raises_before_add(embed_raises, mismatch) ==
    embed_raises \/ mismatch

\* ingest_documents(documents) once the chunks are known. embed_raises:
\* model.encode raises inside embed_texts; fail: where persist stops.
\* retry: the engine call before this one was an ingest_documents of the same
\* documents that ended in the exception of embed_texts.
IngestChunks(documents, chunks, embed_raises, fail) ==
    LET n == Len(chunks)
        texts == texts_of(chunks)
        embeddings == encode(texts)
        new_mem ==
            [documents |-> extend(_documents, texts),
             embeddings |-> extend(_embeddings, embeddings),
             metadatas |-> extend(_metadatas, metadatas_of(chunks)),
             ids |-> extend(_ids, [i \in 1..n |-> uuid_counter + i])]
        mismatch == n > 0 /\ DimensionMismatch(embeddings)
        err ==
            CASE embed_raises -> "AppException"
              [] mismatch -> "ValueError"
              [] fail # "none" -> "VectorStoreError"
              [] OTHER -> "none"
        trace ==
            CASE embed_raises -> <<"embed_texts">>
              [] mismatch -> <<"embed_texts", "add_documents">>
              [] OTHER -> <<"embed_texts", "add_documents", "persist">>
        retry == ingest.err = "AppException" /\ ingest.documents = documents
    IN  /\ added + n <= MaxAdded
        /\ before' = Snapshot
        /\ top_indices' = <<>>
        /\ results' = <<>>
        /\ retrieval' = NoRetrieval
        /\ query_call' = NoQuery
        /\ UNCHANGED <<chunkervars, context, uservars>>
        /\ IF not_chunks(chunks)
           THEN /\ ~embed_raises
                /\ fail = "none"
                /\ call' = Call("ingest", "none", 0, <<>>)
                /\ embed_calls' = <<>>
                /\ ingest' = [documents |-> documents, err |-> "none",
                              chunks |-> chunks, trace |-> <<>>,
                              ingested_count |-> 0, chunk_count |-> 0,
                              retry |-> retry]
                /\ UNCHANGED last_change
                /\ UNCHANGED <<memvars, diskvars, uuid_counter,
                               persist_interrupted, faults, added>>
           ELSE /\ embed_raises => n > 0
                /\ (embed_raises \/ mismatch \/ new_mem.documents = <<>>)
                       => fail = "none"
                /\ err \in {"AppException", "VectorStoreError"} => faults < MaxFaults
                /\ faults' = IF err \in {"AppException", "VectorStoreError"}
                             THEN faults + 1 ELSE faults
                /\ call' = Call("ingest", err, 0, <<>>)
                /\ last_change' = IF err = "none" THEN "ok" ELSE "failed"
                /\ embed_calls' = <<texts>>
                /\ ingest' = [documents |-> documents, err |-> err,
                              chunks |-> chunks, trace |-> trace,
                              ingested_count |->
                                  IF err = "none" THEN Len(documents) ELSE 0,
                              chunk_count |-> IF err = "none" THEN n ELSE 0,
                              retry |-> retry]
                /\ added' = IF embed_raises THEN added ELSE added + n
                /\ uuid_counter' =
                       IF embed_raises THEN uuid_counter ELSE uuid_counter + n
                /\ IF raises_before_add(embed_raises, mismatch)
                   THEN UNCHANGED <<memvars, diskvars, persist_interrupted>>
                   ELSE /\ _documents' = new_mem.documents
                        /\ _embeddings' = new_mem.embeddings
                        /\ _metadatas' = new_mem.metadatas
                        /\ _ids' = new_mem.ids
                        /\ IF new_mem.documents = <<>>
                           THEN UNCHANGED <<diskvars, persist_interrupted>>
                           ELSE \E cut \in CutPoints(json_dump(new_mem.metadatas)) :
                                \E writes \in {PersistWrites(new_mem, fail, cut)} :
                                   /\ fail # "meta_dump" => cut = 0
                                   /\ storage_file' = writes.storage
                                   /\ metadata_file' = writes.meta
                                   /\ persist_interrupted' = writes.interrupted

\* How the persist call of an ingest ends: it completes, it fails before
\* anything is written, or it stops while the metadata is being written.
IngestFailPoints ==
    {"none", "path", "meta_dump"}

\* chunks = list(self.text_processor.process_documents(documents)), then the
\* rest of ingest_documents.
IngestDocuments(documents) ==
    \E chunks \in {ProcessDocuments(documents)} :
        \E embed_raises \in BOOLEAN, fail \in IngestFailPoints :
            IngestChunks(documents, chunks, embed_raises, fail)

ingest_documents ==
    \E documents \in EngineDocLists : IngestDocuments(documents)

\* RAGEngine() and RAGEngine(text_processor=TextProcessor(chunk_size=1)) over
\* an empty collection, no call made yet.
InitIngest ==
    /\ InitStore
    /\ \E size_arg \in {Omitted, Given(1)} : TextProcessorInit(size_arg, Omitted)
    /\ split = NoSplit
    /\ processed = NoProcessed
    /\ rsplit = NoRecursiveSplit
    /\ InitIngestCalls
    /\ InitQuery
    /\ InitUsers

NextIngest ==
    ingest_documents

SpecIngest ==
    InitIngest /\ [][NextIngest]_vars

\* ---------------------------------------------------------- _build_context
settings_max_context_length == 2000

\* "No relevant context found."
no_context ==
    <<"N", "o", " ", "r", "e", "l", "e", "v", "a", "n", "t", " ",
      "c", "o", "n", "t", "e", "x", "t", " ", "f", "o", "u", "n", "d", ".">>

Digits ==
    <<"0", "1", "2", "3", "4", "5", "6", "7", "8", "9">>

\* str(n) for n >= 0
RECURSIVE str_int(_)
str_int(n) ==
    IF n < 10 THEN <<Digits[n + 1]>>
    ELSE str_int(n \div 10) \o <<Digits[(n % 10) + 1]>>

\* f"[{i}] {doc['content']}"
context_part(i, doc) ==
    <<"[">> \o str_int(i) \o <<"]", " ">> \o doc.content

\* sep.join(parts)
RECURSIVE join(_, _)
join(sep, parts) ==
    IF parts = <<>> THEN <<>>
    ELSE IF Len(parts) = 1 THEN parts[1]
    ELSE parts[1] \o sep \o join(sep, Tail(parts))

\* s[:n] for n >= 0
SliceTo(s, n) ==
    SubSeq(s, 1, IF n < Len(s) THEN n ELSE Len(s))

\* _build_context without its first two lines: an empty list gives "".
_build_context_no_marker(documents, max_context_length) ==
    LET joined ==
            join(<<"\n", "\n">>,
                 [i \in 1..Len(documents) |-> context_part(i, documents[i])])
    IN  IF Len(joined) > max_context_length
        THEN SliceTo(joined, max_context_length) \o <<".", ".", ".">>
        ELSE joined

_build_context(documents, max_context_length) ==
    IF documents = <<>> THEN no_context
    ELSE LET joined ==
                 join(<<"\n", "\n">>,
                      [i \in 1..Len(documents) |-> context_part(i, documents[i])])
         IN  IF Len(joined) > max_context_length
             THEN SliceTo(joined, max_context_length) \o <<".", ".", ".">>
             ELSE joined

\* The call _build_context(context.documents) returns.
build_context ==
    /\ ~context.done
    /\ context' = [context EXCEPT
           !.done = TRUE,
           !.context = _build_context(context.documents, context.max_context_length)]
    /\ UNCHANGED <<retrieval, query_call>>
    /\ UNCHANGED <<storevars, chunkervars, enginevars, uservars>>

\* n times the character c
Repeat(c, n) ==
    [i \in 1..n |-> c]

\* The contents of the ranked chunks: short ones, one whose enumerated line is
\* as long as the marker for an empty list, one a character longer.
ContextContents ==
    {<<"a">>, <<"a", " ", "b">>,
     Repeat("a", Len(no_context) - 4), Repeat("b", Len(no_context) - 3)}

ContextDocLists ==
    UNION {[1..n -> [content : ContextContents]] : n \in 0..MaxDocs}

\* The values of settings.max_context_length: the default, and two small ones
\* that the contents above reach.
ContextLengths ==
    {Len(no_context), Len(no_context) + 4, settings_max_context_length}

InitContext ==
    /\ InitStore
    /\ TextProcessorInit(Omitted, Omitted)
    /\ split = NoSplit
    /\ processed = NoProcessed
    /\ rsplit = NoRecursiveSplit
    /\ InitIngestCalls
    /\ retrieval = NoRetrieval
    /\ query_call = NoQuery
    /\ \E documents \in ContextDocLists, max_context_length \in ContextLengths :
           context = [documents |-> documents,
                      max_context_length |-> max_context_length,
                      done |-> FALSE, context |-> <<>>]
    /\ InitUsers

NextContext ==
    build_context

SpecContext ==
    InitContext /\ [][NextContext]_vars

\* ------------------------------------------------------------------ retrieve
\* embed_text(text): embed_texts([text])[0]
embed_text(text) ==
    encode(<<text>>)[1]

\* What embed_texts raises when model.encode raises:
\* AppException(f"Failed to generate embeddings: {str(e)}")
EmbeddingFailure ==
    Raised("AppException", <<"Failed to generate embeddings: ", "encode failed">>)

\* str(e) of the exceptions search raises.
SearchFailure(type) ==
    Raised(type, <<"list index out of range">>)

\* RetrievalError(message=f"Retrieval failed: {str(e)}")
RetrievalError(e) ==
    Raised("RetrievalError", <<"Retrieval failed: ">> \o e.message)

\* An except clause that lets the exception through as it is.
retrieve_except_reraises(e) ==
    e

\* except Exception as e: raise RetrievalError(...)
retrieve_except(e) ==
    RetrievalError(e)

\* The body of retrieve(query, top_k): what it does to the store and how it
\* ends. embed_raises: model.encode raises inside embed_text.
RetrieveCall(query, top_k_arg, embed_raises, order) ==
    LET top_k == PythonOr(top_k_arg, settings_retrieval_top_k)
    IN  IF embed_raises
        THEN /\ order = <<>>
             /\ call' = Call("retrieve", "RetrievalError", top_k, <<>>)
             /\ before' = NoSnapshot
             /\ top_indices' = <<>>
             /\ results' = <<>>
             /\ UNCHANGED <<memvars, diskvars, uuid_counter, persist_interrupted, added>>
             /\ retrieval' = [called |-> TRUE, query |-> query, top_k |-> top_k,
                              cause |-> EmbeddingFailure,
                              err |-> retrieve_except(EmbeddingFailure),
                              results |-> <<>>, store_before |-> Snapshot]
        ELSE /\ SearchStore("retrieve", embed_text(query), top_k, order)
             /\ retrieval' =
                    LET cause == IF call'.err = "none" THEN NoError
                                 ELSE SearchFailure(call'.err)
                    IN  [called |-> TRUE, query |-> query, top_k |-> top_k,
                         cause |-> cause,
                         err |-> IF cause = NoError THEN NoError
                                 ELSE retrieve_except(cause),
                         results |-> results', store_before |-> Snapshot]

\* The query texts: the empty string, and one that embeds to another vector.
Queries ==
    {<<>>, <<"a">>}

\* top_k: left out, 0, 1.
TopKArgs ==
    {Omitted, Given(0), Given(1)}

Retrieve(query, top_k_arg, embed_raises, order) ==
    /\ RetrieveCall(query, top_k_arg, embed_raises, order)
    /\ embed_raises => faults < MaxFaults
    /\ faults' = IF embed_raises THEN faults + 1 ELSE faults
    /\ query_call' = NoQuery
    /\ embed_calls' = <<>>
    /\ ingest' = NoIngest
    /\ UNCHANGED <<chunkervars, last_change, context, uservars>>

retrieve ==
    \E query \in Queries, top_k_arg \in TopKArgs, embed_raises \in BOOLEAN,
       order \in {<<>>} \cup Permutations1(Len(_embeddings)) :
        Retrieve(query, top_k_arg, embed_raises, order)

\* --------------------------------------------------------------------- query
\* RAG_SYSTEM_PROMPT.format(context=context): the text up to "Context:\n", the
\* context, a newline.
system_prompt_of(context_text) ==
    <<"You are a helpful AI assistant. ... Context:\n">> \o context_text \o <<"\n">>

\* The content the generator returns for one call: whatever it is, it is the
\* answer to that call.
AnswerTo(generate_call) ==
    <<generate_call>>

\* LLMServiceError(message=f"LLM generation failed: {str(e)}")
GenerateFailure ==
    Raised("LLMServiceError", <<"LLM generation failed: ", "post failed">>)

\* query(question, top_k): retrieve, _build_context, llm_service.generate.
Query(question, top_k_arg, embed_raises, order, generate_fails) ==
    /\ RetrieveCall(question, top_k_arg, embed_raises, order)
    /\ (embed_raises \/ generate_fails) => faults < MaxFaults
    /\ faults' = IF embed_raises \/ generate_fails THEN faults + 1 ELSE faults
    /\ embed_calls' = <<>>
    /\ ingest' = NoIngest
    /\ UNCHANGED <<chunkervars, last_change, context, uservars>>
    /\ IF retrieval'.err # NoError
       THEN /\ ~generate_fails
            /\ query_call' = [called |-> TRUE, question |-> question,
                              err |-> retrieval'.err, generate_calls |-> <<>>,
                              answer |-> <<>>, sources |-> <<>>,
                              count_before |-> document_count]
       ELSE LET generate_call ==
                    [prompt |-> question,
                     system_prompt |->
                         system_prompt_of(
                             _build_context(results', settings_max_context_length))]
            IN  query_call' =
                    [called |-> TRUE, question |-> question,
                     err |-> IF generate_fails THEN GenerateFailure ELSE NoError,
                     generate_calls |-> <<generate_call>>,
                     answer |-> IF generate_fails THEN <<>>
                                ELSE AnswerTo(generate_call),
                     sources |-> IF generate_fails THEN <<>> ELSE results',
                     count_before |-> document_count]

query ==
    \E question \in Queries, top_k_arg \in TopKArgs,
       embed_raises \in BOOLEAN, generate_fails \in BOOLEAN,
       order \in {<<>>} \cup Permutations1(Len(_embeddings)) :
        Query(question, top_k_arg, embed_raises, order, generate_fails)

\* ingest_documents whose persist completes, or stops when it opens the
\* metadata file for writing (the .npz is new, the json is the old one).
ingest_documents_meta_open ==
    \E documents \in EngineBatches :
        \E chunks \in {ProcessDocuments(documents)} :
            \E fail \in {"none", "meta_open"} :
                IngestChunks(documents, chunks, FALSE, fail)

\* One collection over the life of several processes: ingests, restarts on
\* what the last process left on disk, retrieve and query calls.
NextRetrieve ==
    \/ ingest_documents_meta_open
    \/ VectorStoreInit
    \/ retrieve
    \/ query

SpecRetrieve ==
    Init /\ [][NextRetrieve]_vars

\* ------------------------------------------------- the engine's collection
\* DELETE /documents on the engine of the collection:
\* engine.vector_store.delete_collection().
clear_documents ==
    /\ DeleteCollection
    /\ last_change' = "ok"
    /\ embed_calls' = <<>>
    /\ ingest' = NoIngest
    /\ retrieval' = NoRetrieval
    /\ query_call' = NoQuery
    /\ UNCHANGED <<chunkervars, context, uservars>>

\* ingest_documents of one of the batches, ending in any of its ways.
ingest_batch ==
    \E documents \in EngineBatches : IngestDocuments(documents)

\* retrieve with the embedding provider working.
retrieve_provider_up ==
    \E q \in Queries, order \in {<<>>} \cup Permutations1(Len(_embeddings)) :
        Retrieve(q, Omitted, FALSE, order)

\* One collection as its engine changes it over the life of several
\* processes: ingests that succeed or fail in embed_texts or in persist,
\* clears, restarts on what is on disk, and retrieve calls in between.
NextEngine ==
    \/ ingest_batch
    \/ clear_documents
    \/ VectorStoreInit
    \/ retrieve_provider_up

SpecEngine ==
    Init /\ [][NextEngine]_vars

\* =========================================================== request handlers
\* The route handlers of app/api/v1/routes.py. Every handler is an `async def`
\* run by the one event loop: it runs alone from its start to its first
\* suspension, and the only call that suspends is llm_service.generate.
\* MaxChats: the chat requests suspended at the generator call at one time.
\* MaxUserAdded: the records the engines of all users add through requests.
MaxChats == 1
MaxUserAdded == 1

NpzFile(storage) ==
    [kind |-> "npz", storage |-> storage, tokens |-> <<>>]

JsonFile(tokens) ==
    [kind |-> "json", storage |-> AbsentStorage, tokens |-> tokens]

\* os.path.exists(storage_path) and np.load(storage_path): a file that np.savez
\* did not write cannot be read.
AsStorage(f) ==
    CASE f.kind = "absent" -> AbsentStorage
      [] f.kind = "npz" -> f.storage
      [] OTHER -> TruncatedStorage

\* os.path.exists(metadata_path) and json.load: a file that json.dump did not
\* write does not parse.
AsMeta(f) ==
    CASE f.kind = "absent" -> AbsentMeta
      [] f.kind = "json" -> [exists |-> TRUE, tokens |-> f.tokens]
      [] OTHER -> [exists |-> TRUE, tokens |-> <<>>]

storage_path_of(u) ==
    _get_storage_path(collection_name(u))

metadata_path_of(u) ==
    _get_metadata_path(collection_name(u))

\* RAGEngine(collection_name=f"documents_user_{user.id}"): a new engine whose
\* VectorStore loads what the directory holds under the collection's two paths.
RAGEngineInit(u) ==
    [instance |-> Len(constructed) + 1,
     uuids |-> 0,
     mem |-> _load(AsStorage(FileAt(storage_path_of(u))),
                   AsMeta(FileAt(metadata_path_of(u))))]

\* get_rag_engine_for_user that builds a new engine on every call.
get_rag_engine_for_user_always_new(u) ==
    [engines |-> MapSet(_user_engines, u, RAGEngineInit(u)), built |-> TRUE]

\* get_rag_engine_for_user(user): the registry after the call, and whether the
\* call built an engine.
get_rag_engine_for_user(u) ==
    IF u \notin DOMAIN _user_engines
    THEN [engines |-> MapSet(_user_engines, u, RAGEngineInit(u)), built |-> TRUE]
    ELSE [engines |-> _user_engines, built |-> FALSE]

Constructed(u, got) ==
    IF got.built THEN Append(constructed, u) ELSE constructed

\* Every handler below leaves the single-collection variables alone.
HandlerFrame ==
    UNCHANGED <<storevars, chunkervars, enginevars, queryvars>>

\* The number of records the engines of the registry have added.
UserAdded(engines) ==
    Cardinality(UNION {{<<u, k>> : k \in 1..engines[u].uuids} : u \in DOMAIN engines})

\* POST /documents/ingest: ingest_documents on the user's engine, with the
\* embedding provider and the disk working.
IngestRequest(u, documents) ==
    \E got \in {get_rag_engine_for_user(u)} :
    \E chunks \in {ProcessDocuments(documents)} :
        LET engine == got.engines[u]
            n == Len(chunks)
            texts == texts_of(chunks)
            new_mem ==
                [documents |-> extend(engine.mem.documents, texts),
                 embeddings |-> extend(engine.mem.embeddings, encode(texts)),
                 metadatas |-> extend(engine.mem.metadatas, metadatas_of(chunks)),
                 ids |-> extend(engine.mem.ids,
                                [i \in 1..n |-> <<u, engine.uuids + i>>])]
        IN  /\ HandlerFrame
            /\ UserAdded(got.engines) + n <= MaxUserAdded
            /\ constructed' = Constructed(u, got)
            /\ UNCHANGED chats
            /\ request' = [user |-> u, op |-> "ingest", err |-> "none",
                           instance |-> engine.instance, sources |-> <<>>,
                           count |-> n]
            /\ IF n = 0
               THEN /\ _user_engines' = got.engines
                    /\ UNCHANGED files
               ELSE /\ _user_engines' =
                           [got.engines EXCEPT ![u].mem = new_mem,
                                               ![u].uuids = @ + n]
                    /\ files' =
                           MapSet(MapSet(files, storage_path_of(u),
                                         NpzFile(StorageOf(new_mem))),
                                  metadata_path_of(u),
                                  JsonFile(json_dump(new_mem.metadatas)))

ingest_request ==
    \E u \in UserIds, documents \in EngineBatches :
        IngestRequest(u, documents)

\* GET /documents/stats
stats_request ==
    \E u \in UserIds :
    \E got \in {get_rag_engine_for_user(u)} :
        /\ HandlerFrame
        /\ _user_engines' = got.engines
        /\ constructed' = Constructed(u, got)
        /\ UNCHANGED <<files, chats>>
        /\ request' = [user |-> u, op |-> "stats", err |-> "none",
                       instance |-> got.engines[u].instance, sources |-> <<>>,
                       count |-> Len(got.engines[u].mem.documents)]

\* DELETE /documents: engine.vector_store.delete_collection()
clear_request ==
    \E u \in UserIds :
    \E got \in {get_rag_engine_for_user(u)} :
        /\ HandlerFrame
        /\ _user_engines' = [got.engines EXCEPT ![u].mem = EmptyMem]
        /\ constructed' = Constructed(u, got)
        /\ files' = MapDel(MapDel(files, storage_path_of(u)), metadata_path_of(u))
        /\ UNCHANGED chats
        /\ request' = [user |-> u, op |-> "clear", err |-> "none",
                       instance |-> got.engines[u].instance, sources |-> <<>>,
                       count |-> 0]

\* vector_store.search on the store with memory m: the results, or the
\* IndexError of a position past the end of a list.
SearchIn(m, query_embedding, top_k, order) ==
    IF m.embeddings = <<>> \/ Len(m.documents) = 0
    THEN [err |-> "none", results |-> <<>>]
    ELSE LET sims == [i \in 1..Len(m.embeddings) |->
                         Cosine(m.embeddings[i], query_embedding)]
             top == TopSlice(order, top_k)
         IN  IF \E k \in 1..Len(top) :
                    top[k] > Len(m.ids) \/ top[k] > Len(m.documents)
                        \/ top[k] > Len(m.metadatas)
             THEN [err |-> "IndexError", results |-> <<>>]
             ELSE [err |-> "none",
                   results |-> [k \in 1..Len(top) |->
                       [id |-> m.ids[top[k]], content |-> m.documents[top[k]],
                        metadata |-> m.metadatas[top[k]], score |-> sims[top[k]]]]]

OrdersOf(m, query_embedding) ==
    IF m.embeddings = <<>> \/ Len(m.documents) = 0
    THEN {<<>>}
    ELSE argsort([i \in 1..Len(m.embeddings) |->
                     Cosine(m.embeddings[i], query_embedding)])

\* POST /chat up to the await inside llm_service.generate: the engine is
\* looked up, the question embedded, the store searched, the context built.
chat_request ==
    \E u \in UserIds, question \in {<<"a">>} :
    \E got \in {get_rag_engine_for_user(u)} :
    \E order \in OrdersOf(got.engines[u].mem, embed_text(question)) :
    \E found \in {SearchIn(got.engines[u].mem, embed_text(question),
                           settings_retrieval_top_k, order)} :
        /\ HandlerFrame
        /\ Len(chats) < MaxChats
        /\ _user_engines' = got.engines
        /\ constructed' = Constructed(u, got)
        /\ UNCHANGED files
        /\ request' = [user |-> u, op |-> "chat",
                       err |-> IF found.err = "none" THEN "none" ELSE "RetrievalError",
                       instance |-> got.engines[u].instance,
                       sources |-> found.results, count |-> Len(found.results)]
        /\ chats' = IF found.err = "none"
                    THEN Append(chats, [pending |-> TRUE, user |-> u,
                                        instance |-> got.engines[u].instance,
                                        sources |-> found.results])
                    ELSE chats

\* s without its i-th element
Remove(s, i) ==
    SubSeq(s, 1, i - 1) \o SubSeq(s, i + 1, Len(s))

\* llm_service.generate returns or raises, and the chat handler of that
\* request answers with the sources it retrieved before the await.
chat_response ==
    \E i \in 1..Len(chats), generate_fails \in BOOLEAN :
        /\ HandlerFrame
        /\ chats' = Remove(chats, i)
        /\ request' = [user |-> chats[i].user, op |-> "chat_response",
                       err |-> IF generate_fails THEN "LLMServiceError" ELSE "none",
                       instance |-> chats[i].instance,
                       sources |-> IF generate_fails THEN <<>> ELSE chats[i].sources,
                       count |-> 0]
        /\ UNCHANGED <<_user_engines, files, constructed>>

\* What an earlier process may have left for a user: nothing, or one record
\* persisted.
PersistedRecord(u) ==
    [documents |-> <<<<"b">>>>, embeddings |-> encode(<<<<"b">>>>),
     metadatas |-> <<<<<<"source", "s0">>>>>>, ids |-> <<<<u, 0>>>>]

\* The directory in which the users of `persisted` have a persisted collection.
FilesOf(persisted) ==
    [p \in UNION {{storage_path_of(u), metadata_path_of(u)} : u \in persisted} |->
        LET u == CHOOSE v \in persisted :
                     p \in {storage_path_of(v), metadata_path_of(v)}
        IN  IF p = storage_path_of(u)
            THEN NpzFile(StorageOf(PersistedRecord(u)))
            ELSE JsonFile(json_dump(PersistedRecord(u).metadatas))]

\* The server process has just started over a directory that an earlier
\* process may have written.
InitServer ==
    /\ InitStore
    /\ TextProcessorInit(Omitted, Omitted)
    /\ split = NoSplit
    /\ processed = NoProcessed
    /\ rsplit = NoRecursiveSplit
    /\ InitIngestCalls
    /\ InitQuery
    /\ _user_engines = <<>>
    /\ \E persisted \in SUBSET UserIds : files = FilesOf(persisted)
    /\ chats = <<>>
    /\ request = NoRequest
    /\ constructed = <<>>

NextUsers ==
    \/ ingest_request
    \/ stats_request
    \/ clear_request
    \/ chat_request
    \/ chat_response

SpecUsers ==
    InitServer /\ [][NextUsers]_vars

\* ================================================================== claims
Loaded ==
    _load(storage_file, metadata_file)

LoadedBefore ==
    _load(before.disk.storage, before.disk.meta)

Min(a, b) ==
    IF a < b THEN a ELSE b

\* C1: in every reachable state the four in-memory sequences have the same
\* length: len(ids) == len(texts) == len(vectors) == len(metadatas).
C1_SameLength ==
    /\ Len(_ids) = Len(_documents)
    /\ Len(_documents) = Len(_embeddings)
    /\ Len(_embeddings) = Len(_metadatas)

\* C2: whatever way a persist call ends, a fresh store loading the collection
\* observes the complete previously persisted state or the complete new state.
C2_PersistAtomic ==
    call.op = "persist" => Loaded \in {LoadedBefore, Mem}

\* C3: after add_documents and a persist that returned normally, a fresh store
\* on the same collection holds the same number of records and the same ids,
\* texts, vectors and metadata, position by position.
C3_RoundTrip ==
    (call.op = "persist" /\ call.err = "none" /\ _documents # <<>>) =>
        /\ Len(Loaded.documents) = document_count
        /\ Loaded = Mem

C3_Witness ==
    /\ call.op = "persist"
    /\ call.err = "none"
    /\ Len(_documents) = 2
    /\ \E i \in 1..Len(_metadatas) : _metadatas[i] # EmptyMeta
    /\ Loaded.ids = _ids
    /\ Loaded.metadatas = _metadatas

\* An add_documents call whose vectors were not as wide as the stored ones.
MismatchedAdd ==
    call.op = "add" /\ before # NoSnapshot

\* C4: add_documents with vectors of another dimension than the stored ones
\* fails with VectorStoreError and leaves ids, texts, vectors and metadata as
\* they were.
C4_MismatchRaisesStoreError ==
    MismatchedAdd => (call.err = "VectorStoreError" /\ Mem = before.mem)

\* The persisted artifact is absent, partially written or unreadable: a file
\* is missing or cannot be read, or a persist that stopped midway left an .npz
\* and a json that do not hold the same number of records.
ArtifactBroken ==
    \/ ~storage_file.exists
    \/ ~metadata_file.exists
    \/ ~storage_file.readable
    \/ ~json_load(metadata_file.tokens).ok
    \/ /\ persist_interrupted
       /\ Len(storage_file.ids) # Len(json_load(metadata_file.tokens).value)

\* C5: constructing a store over an absent, partially written or unreadable
\* artifact raises nothing and leaves the store with zero records.
C5_BrokenArtifactLoadsEmpty ==
    (call.op = "construct" /\ ArtifactBroken) =>
        (call.err = "none" /\ document_count = 0)

\* The positions search did not return.
LeftOut ==
    (1..Len(_embeddings)) \ Range(top_indices)

Sims ==
    similarities(call.query)

\* C6: search returns exactly min(top_k, n) records in non-increasing score
\* order, and no record left out scores strictly higher than a returned one.
C6_SearchTopK ==
    call.op = "search" =>
        /\ call.err = "none"
        /\ Len(results) = Min(call.top_k, document_count)
        /\ \A k \in 1..(Len(results) - 1) :
               ScoreGeq(results[k].score, results[k + 1].score)
        /\ \A i \in LeftOut, k \in 1..Len(results) :
               ~ScoreLess(results[k].score, Sims[i])

\* C7: records of equal score come out in insertion order, and when top_k cuts
\* through a group of equal scores the earlier-added records are kept.
C7_TiesInInsertionOrder ==
    (call.op = "search" /\ call.err = "none") =>
        /\ \A k, l \in 1..Len(results) :
               (k < l /\ ScoreEq(results[k].score, results[l].score))
                   => top_indices[k] < top_indices[l]
        /\ \A i \in LeftOut, k \in 1..Len(results) :
               ScoreEq(results[k].score, Sims[i]) => top_indices[k] < i

\* C8: delete_collection returns normally from any state; afterwards memory
\* holds no record, neither file exists, and a fresh store counts 0 documents.
C8_DeleteCollection ==
    call.op = "delete" =>
        /\ call.err = "none"
        /\ document_count = 0
        /\ Mem = EmptyMem
        /\ ~storage_file.exists
        /\ ~metadata_file.exists
        /\ Len(Loaded.documents) = 0

C8_Witness ==
    /\ call.op = "delete"
    /\ Len(before.mem.documents) = 2
    /\ before.disk.storage.exists
    /\ before.disk.meta.exists
    /\ document_count = 0
    /\ ~storage_file.exists

\* C9: a search that follows a persist, with top_k equal to the record count,
\* returns every record of the store.
C9_SearchSeesAllRecords ==
    (call.op = "search" /\ call.after_persist /\ call.top_k = document_count) =>
        /\ call.err = "none"
        /\ Len(results) = document_count
        /\ Range(top_indices) = 1..document_count

\* C10: a persist that fails raises VectorStoreError and leaves ids, texts,
\* vectors and metadata in memory exactly as they were before the call.
C10_FailedPersistKeepsMemory ==
    (call.op = "persist" /\ call.err # "none") =>
        (call.err = "VectorStoreError" /\ Mem = before.mem)

C10_Witness ==
    /\ call.op = "persist"
    /\ call.err = "VectorStoreError"
    /\ Len(_documents) = 2
    /\ Mem = before.mem
    /\ storage_file # before.disk.storage

\* C11: the ids of the stored records are pairwise distinct, whether the
\* caller supplied them or add_documents generated them.
C11_IdsDistinct ==
    \A i, j \in 1..Len(_ids) : i # j => _ids[i] # _ids[j]

IsPrefix(s, t) ==
    Len(s) <= Len(t) /\ \A i \in 1..Len(s) : s[i] = t[i]

\* Every stored record is, after the step, where and what it was before it.
KeepsRecords ==
    /\ IsPrefix(_ids, _ids')
    /\ IsPrefix(_documents, _documents')
    /\ IsPrefix(_embeddings, _embeddings')
    /\ IsPrefix(_metadatas, _metadatas')

\* C12: add_documents, persist and search (get_stats reads only) leave every
\* stored record at its position with its id, text, vector and metadata: the
\* state before the call is a prefix of the state after it; delete_collection
\* removes every record.
C12_AppendOnly ==
    [][/\ call'.op \in {"add", "persist", "search"} => KeepsRecords
       /\ call'.op = "delete" => Mem' = EmptyMem]_vars

C12_Witness ==
    /\ call.op = "add"
    /\ call.err = "none"
    /\ results # <<>>
    /\ Len(results) < Len(_ids)

ZeroMagnitude(v) ==
    Dot(v, v) = 0

\* C13: a search whose query vector or one of whose stored vectors has zero
\* magnitude returns a finite score for every record it returns.
C13_SearchScoresFinite ==
    (/\ call.op = "search"
     /\ call.err = "none"
     /\ \/ ZeroMagnitude(call.query)
        \/ \E i \in 1..Len(_embeddings) : ZeroMagnitude(_embeddings[i]))
        => \A k \in 1..Len(results) : ~results[k].score.nan

\* The words of a text: its maximal runs of non-whitespace characters.
RECURSIVE WordLen(_)
WordLen(s) ==
    IF s # <<>> /\ ~IsSpace(Head(s)) THEN 1 + WordLen(Tail(s)) ELSE 0

RECURSIVE Words(_)
Words(s) ==
    LET t == lstrip(s)
    IN  IF t = <<>> THEN <<>>
        ELSE <<SubSeq(t, 1, WordLen(t))>> \o Words(SliceFrom(t, WordLen(t)))

RECURSIVE JoinWords(_)
JoinWords(ws) ==
    IF ws = <<>> THEN <<>>
    ELSE IF Len(ws) = 1 THEN ws[1]
    ELSE ws[1] \o <<" ">> \o JoinWords(Tail(ws))

\* The normalized form of a text: its words, one space between two of them.
Normalized(text) ==
    JoinWords(Words(text))

\* C14: a text whose normalized form is no longer than chunk_size comes back
\* from split_text as exactly one chunk, the normalized text, or as no chunk
\* when the normalized text is empty.
C14_ShortTextOneChunk ==
    (split.done /\ Len(Normalized(split.text)) <= chunk_size) =>
        split.chunks = IF Normalized(split.text) = <<>>
                       THEN <<>> ELSE <<Normalized(split.text)>>

C14_Witness ==
    /\ split.done
    /\ init_args.chunk_size = Given(chunk_size)
    /\ Len(Normalized(split.text)) = chunk_size
    /\ split.text # Normalized(split.text)
    /\ \E i \in 1..Len(split.text) : split.text[i] = "\n"
    /\ split.chunks = <<Normalized(split.text)>>

\* The processor holds the chunk_size and chunk_overlap it was constructed with.
ArgsInEffect ==
    /\ init_args.chunk_size = Given(chunk_size)
    /\ init_args.chunk_overlap = Given(chunk_overlap)

\* C15: every chunk split_text returns, the overlap prepended to it included,
\* is at most chunk_size characters long.
C15_ChunkWithinSize ==
    (split.done /\ ArgsInEffect) =>
        \A i \in 1..Len(split.chunks) : Len(split.chunks[i]) <= chunk_size

\* The chunks of split.text after merging, before any overlap is added.
PreOverlap ==
    IF Len(clean_text(split.text)) <= chunk_size
    THEN split.chunks
    ELSE MergeLoop(_recursive_split(clean_text(split.text), separators), <<>>, <<>>)

\* The last k characters of prev start at the beginning of a word of prev.
WordAlignedSuffix(prev, k) ==
    /\ k \in 1..Len(prev)
    /\ ~IsSpace(prev[Len(prev) - k + 1])
    /\ k = Len(prev) \/ IsSpace(prev[Len(prev) - k])

\* C16: with chunk_overlap > 0, every chunk after the first is a non-empty
\* suffix of the previous pre-overlap chunk, taken from its last chunk_overlap
\* characters and starting at a word boundary, then one space, then the
\* pre-overlap chunk itself.
C16_OverlapWordAligned ==
    (split.done /\ ArgsInEffect /\ chunk_overlap > 0 /\ Len(split.chunks) > 1) =>
        \A i \in 2..Len(split.chunks) :
            \E k \in 1..Min(chunk_overlap, Len(PreOverlap[i - 1])) :
                /\ WordAlignedSuffix(PreOverlap[i - 1], k)
                /\ split.chunks[i] =
                       LastChars(PreOverlap[i - 1], k) \o <<" ">> \o PreOverlap[i]

\* dict[key]
Lookup(d, key) ==
    d[CHOOSE i \in 1..Len(d) : d[i][1] = key][2]

DocIndex(chunk) ==
    Lookup(chunk.metadata, "doc_index")

\* The yielded chunks that carry doc_index = d, in the order they were yielded.
ChunksOfDoc(d) ==
    SelectSeq(processed.chunks, LAMBDA chunk : DocIndex(chunk) = d)

ReservedKeys ==
    {"doc_index", "chunk_index", "total_chunks"}

\* The chunks come in document order, and those of the d-th document are the
\* chunks of its content in order, numbered 0 .. total_chunks - 1; a document
\* without chunks yields nothing.
OrderedAndNumbered ==
    LET docs == processed.documents
        out == processed.chunks
    IN  /\ \A k \in 1..Len(out) : DocIndex(out[k]) \in 0..(Len(docs) - 1)
        /\ \A k \in 1..(Len(out) - 1) : DocIndex(out[k]) <= DocIndex(out[k + 1])
        /\ \A d \in 1..Len(docs) :
               LET cs == ChunksOfDoc(d - 1)
                   expected == SplitText(docs[d].content)
               IN  /\ Len(cs) = Len(expected)
                   /\ \A c \in 1..Len(cs) :
                          /\ cs[c].content = expected[c]
                          /\ Lookup(cs[c].metadata, "chunk_index") = c - 1
                          /\ Lookup(cs[c].metadata, "total_chunks") = Len(expected)
                          /\ 0 <= Lookup(cs[c].metadata, "chunk_index")
                          /\ Lookup(cs[c].metadata, "chunk_index")
                                 < Lookup(cs[c].metadata, "total_chunks")

\* C17: process_documents yields the chunks in document order then chunk order,
\* each with every metadata entry of its document plus doc_index, total_chunks
\* and chunk_index = 0 .. total_chunks - 1; documents without chunks yield
\* nothing.
C17_ChunkRecords ==
    processed.done =>
        /\ OrderedAndNumbered
        /\ \A d \in 1..Len(processed.documents) :
               \A c \in 1..Len(ChunksOfDoc(d - 1)) :
                   \A e \in Range(processed.documents[d].metadata) :
                       e \in Range(ChunksOfDoc(d - 1)[c].metadata)

\* C17 amended: as C17, with every metadata entry of the document whose key is
\* not doc_index, chunk_index or total_chunks (the chunk's own value replaces
\* an entry of the document under one of these three keys).
C17_ChunkRecordsReservedKeys ==
    processed.done =>
        /\ OrderedAndNumbered
        /\ \A d \in 1..Len(processed.documents) :
               \A c \in 1..Len(ChunksOfDoc(d - 1)) :
                   \A e \in Range(processed.documents[d].metadata) :
                       e[1] \notin ReservedKeys
                           => e \in Range(ChunksOfDoc(d - 1)[c].metadata)

C17_Witness ==
    /\ processed.done
    /\ Len(processed.documents) = 2
    /\ Len(ChunksOfDoc(0)) = 0
    /\ Len(ChunksOfDoc(1)) > 1
    /\ processed.documents[2].metadata = <<<<"source", "s1">>>>
    /\ <<"source", "s1">> \in Range(processed.chunks[2].metadata)
    /\ Lookup(processed.chunks[2].metadata, "chunk_index") = 1

\* C18: a TextProcessor constructed with explicit chunk_size >= 1 and
\* chunk_overlap >= 0 uses exactly those values, a chunk_overlap of 0 giving
\* chunks without overlap; the defaults are used only for omitted arguments.
C18_ExplicitArgsUsed ==
    /\ init_args.chunk_size.given => chunk_size = init_args.chunk_size.value
    /\ init_args.chunk_overlap.given => chunk_overlap = init_args.chunk_overlap.value
    /\ ~init_args.chunk_size.given => chunk_size = settings_chunk_size
    /\ ~init_args.chunk_overlap.given => chunk_overlap = settings_chunk_overlap
    /\ (split.done /\ init_args.chunk_overlap = Given(0)) => split.chunks = PreOverlap

\* C19: an ingest_documents call whose documents give no chunk returns
\* normally with ingested_count = 0 and chunk_count = 0, makes no embed_texts
\* call, and leaves the store as it was, in memory and on disk.
C19_NoChunksNoOp ==
    (call.op = "ingest" /\ ingest.chunks = <<>>) =>
        /\ call.err = "none"
        /\ ingest.ingested_count = 0
        /\ ingest.chunk_count = 0
        /\ embed_calls = <<>>
        /\ ingest.trace = <<>>
        /\ Mem = before.mem
        /\ Disk = before.disk

C19_Witness ==
    /\ call.op = "ingest"
    /\ ingest.chunks = <<>>
    /\ Len(ingest.documents) = 2
    /\ ingest.ingested_count = 0
    /\ before.mem.documents # <<>>
    /\ before.disk.storage.exists
    /\ Mem = before.mem

\* C20: an ingest_documents call with n > 0 chunks makes exactly one embed_texts
\* call, holding the n chunk texts in chunk order; when it returns normally it
\* has added n records whose text, vector and metadata at each position are
\* those of one chunk, has persisted after adding, reports chunk_count = n, and
\* the store holds exactly n records more than before.
C20_IngestEmbedsAddsPersists ==
    (call.op = "ingest" /\ ingest.chunks # <<>>) =>
        LET chunks == ingest.chunks
            n == Len(ingest.chunks)
            base == Len(before.mem.documents)
        IN  /\ embed_calls = <<[i \in 1..n |-> chunks[i].content]>>
            /\ call.err = "none" =>
                   /\ ingest.trace = <<"embed_texts", "add_documents", "persist">>
                   /\ ingest.chunk_count = n
                   /\ document_count = base + n
                   /\ Len(_embeddings) = base + n
                   /\ Len(_metadatas) = base + n
                   /\ IsPrefix(before.mem.documents, _documents)
                   /\ \A i \in 1..n :
                          /\ _documents[base + i] = chunks[i].content
                          /\ _embeddings[base + i] = encode(<<chunks[i].content>>)[1]
                          /\ _metadatas[base + i] = chunks[i].metadata
                   /\ Loaded = Mem

C20_Witness ==
    /\ call.op = "ingest"
    /\ call.err = "none"
    /\ Len(ingest.chunks) = 2
    /\ ingest.chunks[1].content # ingest.chunks[2].content
    /\ ingest.chunk_count = 2
    /\ document_count = 2
    /\ _embeddings[1] # _embeddings[2]
    /\ Loaded = Mem

\* The string s holds the string p as a run of consecutive pieces.
Contains(s, p) ==
    \E i \in 0..(Len(s) - Len(p)) : SubSeq(s, i + 1, i + Len(p)) = p

\* C21: a failure raised while retrieve embeds the query or searches the store
\* reaches the caller as a RetrievalError whose message contains the message
\* of the original error; no other exception type leaves retrieve; the vector
\* store, memory and files, is as it was before the call.
C21_RetrieveWrapsFailures ==
    (call.op = "retrieve" /\ retrieval.called) =>
        /\ retrieval.err.type \in {"none", "RetrievalError"}
        /\ retrieval.cause # NoError =>
               /\ retrieval.err.type = "RetrievalError"
               /\ Contains(retrieval.err.message, retrieval.cause.message)
        /\ Mem = retrieval.store_before.mem
        /\ Disk = retrieval.store_before.disk

C21_Witness ==
    /\ call.op = "retrieve"
    /\ retrieval.called
    /\ retrieval.cause.type = "IndexError"
    /\ retrieval.err.type = "RetrievalError"
    /\ document_count = 2
    /\ storage_file.exists

\* The exception classes the collaborators of the engine raise: embed_texts
\* (AppException), np.vstack inside add_documents (ValueError), persist
\* (VectorStoreError).
CollaboratorErrors ==
    {"AppException", "ValueError", "VectorStoreError"}

\* C22: an ingest_documents call in which the embedding provider, add_documents
\* or persist fails ends with the engine's own error type, never with the
\* exception class of the collaborator that failed.
C22_IngestWrapsFailures ==
    (call.op = "ingest" /\ call.err # "none") =>
        /\ call.err \notin CollaboratorErrors
        /\ ingest.err = call.err

\* C23: for every list of ranked chunks, the string _build_context returns,
\* the truncation marker included when the enumerated concatenation was cut,
\* is at most max_context_length characters long.
C23_ContextWithinLength ==
    context.done => Len(context.context) <= context.max_context_length

\* The last call was a retrieve (alone or inside a query) on a collection that
\* held no record.
RetrieveOnEmpty ==
    /\ call.op = "retrieve"
    /\ retrieval.called
    /\ retrieval.store_before.mem.documents = <<>>

QueryOnEmpty ==
    RetrieveOnEmpty /\ query_call.called /\ query_call.count_before = 0

\* The query made one generator call, with the system prompt built from the
\* marker for no context, and returned the generator's answer and no source.
AnsweredFromMarker ==
    /\ query_call.err = NoError
    /\ Len(query_call.generate_calls) = 1
    /\ query_call.generate_calls[1].system_prompt = system_prompt_of(no_context)
    /\ query_call.generate_calls[1].prompt = query_call.question
    /\ query_call.answer = AnswerTo(query_call.generate_calls[1])
    /\ query_call.sources = <<>>

CollectionOf(u) ==
    [engine |-> IF u \in DOMAIN _user_engines THEN <<_user_engines[u]>> ELSE <<>>,
     storage |-> FileAt(storage_path_of(u)),
     meta |-> FileAt(metadata_path_of(u))]

\* C25: a step of a request of user A (ingest, chat, stats, clear) leaves the
\* engine, the in-memory records and the two files of every other user as they
\* were, and what it returns comes from the collection of A: the sources of a
\* chat are records of A's store, the count of stats is A's record count.
C25_UserIsolation ==
    [][/\ \A u \in UserIds :
              u # request'.user => CollectionOf(u)' = CollectionOf(u)
       /\ request'.op = "chat" =>
              \A k \in 1..Len(request'.sources) :
                  \E i \in 1..Len(_user_engines'[request'.user].mem.ids) :
                      /\ request'.sources[k].id[1] = request'.user
                      /\ request'.sources[k].id =
                             _user_engines'[request'.user].mem.ids[i]
                      /\ request'.sources[k].content =
                             _user_engines'[request'.user].mem.documents[i]
       /\ request'.op = "stats" =>
              request'.count = Len(_user_engines'[request'.user].mem.documents)
      ]_vars

C25_Witness ==
    /\ request.op = "clear"
    /\ \E u \in DOMAIN _user_engines :
           /\ u # request.user
           /\ Len(_user_engines[u].mem.documents) = 2
           /\ FileAt(storage_path_of(u)).kind = "npz"
           /\ FileAt(metadata_path_of(u)).kind = "json"
           /\ FileAt(storage_path_of(request.user)).kind = "absent"
           /\ request.user \in DOMAIN _user_engines

\* The number of engines built for user u.
EnginesBuilt(u) ==
    Cardinality({i \in 1..Len(constructed) : constructed[i] = u})

\* C26: whatever the interleaving of requests, get_rag_engine_for_user builds
\* at most one engine for a user id, the entry of a user in the registry is
\* never replaced or removed, and every request of the user works on that one
\* engine.
C26_OneEnginePerUser ==
    [][/\ \A u \in UserIds : EnginesBuilt(u)' <= 1
       /\ \A u \in DOMAIN _user_engines :
              /\ u \in DOMAIN _user_engines'
              /\ _user_engines'[u].instance = _user_engines[u].instance
       /\ request'.user \in DOMAIN _user_engines'
       /\ request'.instance = _user_engines'[request'.user].instance
      ]_vars

C26_Witness ==
    /\ request.op = "ingest"
    /\ request.count > 0
    /\ Len(chats) > 0
    /\ chats[1].user = request.user
    /\ chats[1].instance = request.instance
    /\ chats[1].sources # <<>>
    /\ EnginesBuilt(request.user) = 1

\* Every call under way was given a separator list one shorter than its
\* caller's, and a call whose separator is the empty string makes no call.
SeparatorsShrink ==
    \A i \in 1..Len(rsplit.stack) :
        /\ i > 1 => Len(rsplit.stack[i].separators)
                        < Len(rsplit.stack[i - 1].separators)
        /\ (i < Len(rsplit.stack)) =>
               /\ rsplit.stack[i].separators # <<>>
               /\ Head(rsplit.stack[i].separators) # <<>>
        /\ (rsplit.stack[i].separators # <<>>
               /\ Head(rsplit.stack[i].separators) = <<>>
               /\ rsplit.stack[i].pc = "return") =>
               /\ Len(rsplit.stack[i].chunks) = Len(rsplit.stack[i].text)
               /\ \A k \in 1..Len(rsplit.stack[i].chunks) :
                      rsplit.stack[i].chunks[k] = <<rsplit.stack[i].text[k]>>

\* The finished call returned pieces that fit, and they are the text.
PiecesFit ==
    (rsplit.done /\ Len(rsplit.text) > chunk_size) =>
        /\ \A k \in 1..Len(rsplit.result) : Len(rsplit.result[k]) <= chunk_size
        /\ rsplit.result = _recursive_split(rsplit.text, separators)

\* C27: _recursive_split terminates for every text and every chunk_size >= 1:
\* every recursive call gets a strictly shorter separator list, the empty
\* separator gives the single characters without a further call, and every
\* piece returned for a text longer than chunk_size is at most chunk_size long.
C27_RecursiveSplitTerminates ==
    /\ [](SeparatorsShrink /\ PiecesFit)
    /\ <>rsplit.done

C27_Witness ==
    /\ rsplit.done
    /\ rsplit.calls = Len(separators)
    /\ Len(rsplit.text) > chunk_size
    /\ Len(rsplit.result) = Len(rsplit.text)

\* C28: every chunk the merge step produces, before overlap is added, is
\* non-empty and at most chunk_size characters long; every chunk split_text
\* returns, after overlap is added, is non-empty and at most
\* chunk_size + chunk_overlap + 1 characters long.
C28_ChunkLengths ==
    split.done =>
        \A merged \in {PreOverlap} :
            /\ \A i \in 1..Len(merged) :
                   /\ merged[i] # <<>>
                   /\ Len(merged[i]) <= chunk_size
            /\ Len(split.chunks) = Len(merged)
            /\ \A i \in 1..Len(split.chunks) :
                   /\ split.chunks[i] # <<>>
                   /\ Len(split.chunks[i]) <= chunk_size + chunk_overlap + 1

C28_Witness ==
    /\ split.done
    /\ ArgsInEffect
    /\ Len(split.chunks) > 1
    /\ \E merged \in {PreOverlap} :
       \E i \in 1..Len(split.chunks) :
           /\ Len(merged[i]) = chunk_size
           /\ Len(split.chunks[i]) = chunk_size + chunk_overlap + 1

\* C29: an ingest_documents that ends in the exception of embed_texts has
\* added nothing: the four lists and the two files are what they were before
\* the call. The same ingest_documents made again right after it, and
\* succeeding, therefore adds each of its chunks exactly once to the records
\* held before the first attempt, under ids no record had, and a store built
\* from the files loads exactly these records.
C29_FailedEmbedAddsNothing ==
    /\ (call.op = "ingest" /\ ingest.err = "AppException") =>
           /\ Mem = before.mem
           /\ Disk = before.disk
    /\ (call.op = "ingest" /\ ingest.retry /\ ingest.err = "none") =>
           /\ _documents = before.mem.documents \o texts_of(ingest.chunks)
           /\ Len(_ids) = Len(_documents)
           /\ \A i, j \in 1..Len(_ids) : i # j => _ids[i] # _ids[j]
           /\ Loaded = Mem

C29_Witness ==
    /\ call.op = "ingest"
    /\ ingest.retry
    /\ ingest.err = "none"
    /\ Len(ingest.chunks) = 1
    /\ Len(before.mem.documents) = 1
    /\ Len(_documents) = 2
    /\ _ids[1] # _ids[2]

\* The records of memory m are the first records of memory n, in order.
StartsWith(n, m) ==
    /\ Len(n.documents) >= Len(m.documents)
    /\ SubSeq(n.documents, 1, Len(m.documents)) = m.documents
    /\ Len(n.embeddings) >= Len(m.embeddings)
    /\ SubSeq(n.embeddings, 1, Len(m.embeddings)) = m.embeddings
    /\ Len(n.metadatas) >= Len(m.metadatas)
    /\ SubSeq(n.metadatas, 1, Len(m.metadatas)) = m.metadatas
    /\ Len(n.ids) >= Len(m.ids)
    /\ SubSeq(n.ids, 1, Len(m.ids)) = m.ids

\* While the last ingest_documents with chunks or clear of the collection is
\* one that returned normally, a store built from the files holds what memory
\* holds, and nothing after a clear.
PersistedInSync ==
    /\ last_change = "ok" => Loaded = Mem
    /\ call.op = "delete" => (Mem = EmptyMem /\ Loaded = EmptyMem)

\* An ingest_documents whose persist raised has left its chunks in memory
\* after the records held before; a retrieve leaves memory as it is; and an
\* ingest_documents with chunks that returns normally writes every record
\* that was in memory before it, followed by its own.
UnpersistedKeptAndWritten ==
    /\ (call'.op = "ingest" /\ ingest'.err = "VectorStoreError") =>
           /\ StartsWith(Mem', Mem)
           /\ _documents' = _documents \o texts_of(ingest'.chunks)
    /\ call'.op = "retrieve" => Mem' = Mem
    /\ (call'.op = "ingest" /\ ingest'.err = "none" /\ ingest'.chunks # <<>>) =>
           /\ StartsWith(Mem', Mem)
           /\ Loaded' = Mem'

\* C30: whenever the most recent ingest_documents with at least one chunk or
\* delete_collection of the collection returned normally, a fresh store on the
\* collection loads exactly the records held in memory (none after a delete);
\* the records of an ingest_documents whose persist failed stay in memory and
\* are on disk after the next ingest_documents whose persist succeeds.
C30_PersistedInSync ==
    []PersistedInSync /\ [][UnpersistedKeptAndWritten]_vars

\* A successful ingest_documents right after one whose persist failed: both
\* records are in memory and in the files.
C30_Witness ==
    /\ call.op = "ingest"
    /\ ingest.err = "none"
    /\ last_change = "ok"
    /\ faults = 1
    /\ Len(ingest.chunks) = 1
    /\ Len(before.mem.documents) = 1
    /\ ~before.disk.storage.exists
    /\ Len(Loaded.documents) = 2
    /\ Loaded = Mem

====
